---- MODULE Spec2Model ----
(***************************************************************************)
(* Model of scripts/validate_fastmcp.py: FastMCPValidator and main().       *)
(*                                                                         *)
(* A run is one invocation of main(): construct the validator, call        *)
(* validate() (existence test, open, read, ast.parse, the seven check_*    *)
(* methods in order, print_results, verdict) and sys.exit.  The file under *)
(* validation is an input: it may be missing, unopenable, unreadable,      *)
(* syntactically invalid, or parse to a syntax tree.  Syntax trees are     *)
(* records mirroring the ast node classes the validator inspects.          *)
(***************************************************************************)
EXTENDS Integers, Sequences, FiniteSets, TLC

VARIABLES
    file,      \* the file on disk named by args.file (input)
    strict,    \* FastMCPValidator.strict
    issues,    \* FastMCPValidator.issues
    tree,      \* FastMCPValidator.tree (None until ast.parse succeeds)
    handle,    \* the file object of `with open(...) as f`: "none", "open", "closed"
    content,   \* the local `content` of validate()
    stdout,    \* the lines printed so far
    success,   \* the value returned by validate() (None until it returns)
    exitCode,  \* the argument of sys.exit (None until main exits)
    pc,        \* position of the run inside main() / validate()
    calls,     \* the check_* methods called so far in this run, in call order
    prev       \* the finished earlier invocations on the same file

vars == <<file, strict, issues, tree, handle, content, stdout, success, exitCode, pc, calls, prev>>

----------------------------------------------------------------------------
(* Optional values: None is the empty tuple, a present value a 1-tuple.    *)
None == <<>>
Some(x) == <<x>>

(* Bounds of the model.                                                    *)
MaxErrLine == 2   \* a SyntaxError is reported at a line in 1..MaxErrLine
MaxRuns == 2      \* invocations of the tool on the same file

RECURSIVE Concat(_)
Concat(ss) == IF ss = <<>> THEN <<>> ELSE Head(ss) \o Concat(Tail(ss))

----------------------------------------------------------------------------
(* ast node constructors.  Only the fields the validator reads are kept.   *)
(* Expressions.                                                            *)
Name(id) == [type |-> "Name", id |-> id]
Attribute(value, attr) == [type |-> "Attribute", value |-> value, attr |-> attr]
Call(func, args) == [type |-> "Call", func |-> func, args |-> args]
Compare(left, comparator) == [type |-> "Compare", left |-> left, comparator |-> comparator]
Constant(v) == [type |-> "Constant", value |-> v]
(* An attribute chain a.a.a. ... nested deeper than the interpreter's       *)
(* recursion limit: ast.parse builds it, ast.unparse cannot visit it.       *)
DeepAttribute == [type |-> "DeepAttribute"]

(* Statements.  Every statement has a lineno and a body (its child         *)
(* statements, empty for simple statements).                               *)
ImportFrom(line, module, names) ==
    [type |-> "ImportFrom", lineno |-> line, module |-> module, names |-> names, body |-> <<>>]
Import(line, names) ==
    [type |-> "Import", lineno |-> line, names |-> names, body |-> <<>>]
Assign(line, value) ==
    [type |-> "Assign", lineno |-> line, value |-> value, body |-> <<>>]
AnnAssign(line, value) ==
    [type |-> "AnnAssign", lineno |-> line, value |-> value, body |-> <<>>]
ExprStmt(line, value) ==
    [type |-> "Expr", lineno |-> line, value |-> value, body |-> <<>>]
AwaitExpr == [type |-> "Await"]
Pass(line) ==
    [type |-> "Pass", lineno |-> line, body |-> <<>>]
If(line, test, body) ==
    [type |-> "If", lineno |-> line, test |-> test, body |-> body]
arg(name, annotation) == [arg |-> name, annotation |-> annotation]
arguments(args, kwonlyargs) == [args |-> args, kwonlyargs |-> kwonlyargs]
FunctionDef(line, name, decorator_list, args, returns, body) ==
    [type |-> "FunctionDef", lineno |-> line, name |-> name,
     decorator_list |-> decorator_list, args |-> args, returns |-> returns, body |-> body]
AsyncFunctionDef(line, name, decorator_list, args, returns, body) ==
    [type |-> "AsyncFunctionDef", lineno |-> line, name |-> name,
     decorator_list |-> decorator_list, args |-> args, returns |-> returns, body |-> body]
Module(body) == [type |-> "Module", body |-> body]

(* ast.iter_child_nodes, restricted to the node classes of the model: the  *)
(* value of an expression statement, the body of a compound statement.     *)
iter_child_nodes(node) ==
    CASE node.type = "Expr" -> <<node.value>>
      [] node.type \in {"Module", "FunctionDef", "AsyncFunctionDef", "If"} -> node.body
      [] OTHER -> <<>>

(* ast.walk: breadth-first, the node itself first, children appended to    *)
(* the end of the queue.                                                   *)
RECURSIVE walkQueue(_)
walkQueue(todo) ==
    IF todo = <<>> THEN <<>>
    ELSE <<Head(todo)>> \o walkQueue(Tail(todo) \o iter_child_nodes(Head(todo)))

walk(node) == walkQueue(<<node>>)

IsFunctionDef_or_async(node) == node.type \in {"FunctionDef", "AsyncFunctionDef"}

(* isinstance(node, ast.FunctionDef): ast.AsyncFunctionDef is a separate   *)
(* class, not a subclass of ast.FunctionDef.                               *)
IsFunctionDef(node) == node.type = "FunctionDef"
IsAsyncFunctionDef(node) == node.type = "AsyncFunctionDef"

(* The exception ast.unparse raises on a DeepAttribute; a value that holds *)
(* it stands for the call that raised.                                     *)
RecursionError == "RecursionError"
raised(v) == \E i \in DOMAIN v : v[i] = RecursionError

(* ast.unparse of a dotted expression, as the tuple of its components:     *)
(* "a.b" is <<"a", "b">>; the empty string is <<>>.                        *)
RECURSIVE unparse(_)
unparse(e) ==
    CASE e.type = "Name" -> <<e.id>>
      [] e.type = "DeepAttribute" -> <<RecursionError>>
      [] e.type = "Attribute" -> unparse(e.value) \o <<e.attr>>
      [] e.type = "Call" -> unparse(e.func) \o <<"()">>
      [] OTHER -> <<"?">>

RECURSIVE get_decorator_name(_)
get_decorator_name(decorator) ==
    CASE decorator.type = "Name" -> <<decorator.id>>
      [] decorator.type = "Attribute" -> unparse(decorator.value) \o <<decorator.attr>>
      [] decorator.type = "Call" -> get_decorator_name(decorator.func)
      [] OTHER -> <<>>

decoratorNames(node) ==
    [i \in DOMAIN node.decorator_list |-> get_decorator_name(node.decorator_list[i])]

(* the list comprehension over node.decorator_list raises                   *)
decoratorsRaise(node) ==
    \E i \in DOMAIN node.decorator_list : raised(get_decorator_name(node.decorator_list[i]))

(* name in decorators                                                      *)
InList(x, s) == \E i \in DOMAIN s : s[i] = x

(* d.startswith("mcp."): the first component is "mcp" and another follows. *)
StartsWithMcp(d) == Len(d) >= 2 /\ d[1] = "mcp"

anyMcp(decorators) == \E i \in DOMAIN decorators : StartsWithMcp(decorators[i])

(* ast.get_docstring(node): the cleaned string of a leading string         *)
(* expression statement, else None.                                        *)
get_docstring(node) ==
    IF node.body # <<>> /\ node.body[1].type = "Expr" /\ node.body[1].value.type = "Constant"
    THEN Some(node.body[1].value.value)
    ELSE None

has_await_top_only(node) ==
    \E i \in DOMAIN node.body : node.body[i].type = "Await"

has_await_own_scope(node) ==
    \E i \in DOMAIN node.body :
        node.body[i].type = "Expr" /\ node.body[i].value.type = "Await"

has_await(node) == \E i \in DOMAIN walk(node) : walk(node)[i].type = "Await"

----------------------------------------------------------------------------
(* ValidationIssue and the three add_* methods.  Each add_* is the tuple   *)
(* of issues the call appends to self.issues.                              *)
ValidationIssue(severity, line, message, suggestion) ==
    [severity |-> severity, line |-> line, message |-> message, suggestion |-> suggestion]

add_error(line, message, suggestion) ==
    <<ValidationIssue("error", line, message, suggestion)>>

add_warning(line, message, suggestion) ==
    <<ValidationIssue("warning", line, message, suggestion)>>

add_info_always(s, line, message, suggestion) ==
    <<ValidationIssue("info", line, message, suggestion)>>

add_info_when_not_strict(s, line, message, suggestion) ==
    IF ~s THEN <<ValidationIssue("info", line, message, suggestion)>> ELSE <<>>

add_info(s, line, message, suggestion) ==
    IF s THEN <<ValidationIssue("info", line, message, suggestion)>> ELSE <<>>

FILEPATH == "server.py"

(* The messages are the f-strings of the source, as tuples of their parts. *)
MsgNotFound == <<"File not found: ", FILEPATH>>
MsgReadFailed == <<"Failed to read file: ", "e">>
MsgSyntax(msg) == <<"Python syntax error: ", msg>>
MsgNoImportClass == <<"FastMCP class not imported from fastmcp">>
MsgMissingImport == <<"Missing FastMCP import">>
MsgNoServerName == <<"FastMCP initialized without server name">>
MsgNoServerInit == <<"No FastMCP server initialization found">>
MsgNoHandlers == <<"No tools, resources, or prompts defined">>
MsgFound(t, r, p) ==
    <<"Found: ", ToString(t), " tools, ", ToString(r), " resources, ", ToString(p), " prompts">>
MsgToolDoc(name) == <<"Tool '", name, "' missing docstring">>
MsgResourceUri(name) == <<"Resource '", name, "' missing URI">>
MsgPromptReturn(name, rt) == <<"Prompt '", name, "' has unusual return type: ", rt>>
MsgParamHint(a, name) == <<"Parameter '", a, "' in '", name, "' missing type hint">>
MsgReturnHint(name) == <<"Function '", name, "' missing return type hint">>
MsgAwaitNotAsync(name) == <<"Function '", name, "' uses await but is not async">>
MsgCtxHint(name) == <<"Context parameter in '", name, "' missing type hint">>
MsgCtxNotAsync(name) == <<"Function '", name, "' has Context parameter but is not async">>
MsgNoMain == <<"Missing if __name__ == '__main__' block">>

----------------------------------------------------------------------------
(* The rules.  Each check_* is the tuple of issues the method appends.     *)

check_imports_no_error(t) ==
    LET W == walk(t)
    IN  Concat([i \in DOMAIN W |->
            IF W[i].type = "ImportFrom" /\ W[i].module = "fastmcp"
               /\ ~InList("FastMCP", W[i].names)
            THEN add_warning(Some(W[i].lineno), MsgNoImportClass,
                             Some(<<"Add: from fastmcp import FastMCP">>))
            ELSE <<>>])

check_imports(t) ==
    LET W == walk(t)
        hit(n) == n.type = "ImportFrom" /\ n.module = "fastmcp"
        has_fastmcp_import == \E i \in DOMAIN W : hit(W[i])
        perNode == [i \in DOMAIN W |->
            IF hit(W[i]) /\ ~InList("FastMCP", W[i].names)
            THEN add_warning(Some(W[i].lineno), MsgNoImportClass,
                             Some(<<"Add: from fastmcp import FastMCP">>))
            ELSE <<>>]
    IN  Concat(perNode) \o
        (IF ~has_fastmcp_import
         THEN add_error(None, MsgMissingImport, Some(<<"Add: from fastmcp import FastMCP">>))
         ELSE <<>>)

check_server_init(t) ==
    LET W == walk(t)
        hit(n) == /\ n.type = "Assign"
                  /\ n.value.type = "Call"
                  /\ n.value.func.type = "Name"
                  /\ n.value.func.id = "FastMCP"
        has_server_init == \E i \in DOMAIN W : hit(W[i])
        perNode == [i \in DOMAIN W |->
            IF hit(W[i]) /\ W[i].value.args = <<>>
            THEN add_error(Some(W[i].lineno), MsgNoServerName,
                           Some(<<"Use: mcp = FastMCP(\"server-name\")">>))
            ELSE <<>>]
    IN  Concat(perNode) \o
        (IF ~has_server_init
         THEN add_error(None, MsgNoServerInit, Some(<<"Add: mcp = FastMCP(\"server-name\")">>))
         ELSE <<>>)

check_tool_function(node) ==
    IF get_docstring(node) \in {None, Some(<<"">>)}
    THEN add_warning(Some(node.lineno), MsgToolDoc(node.name),
                     Some(<<"Add comprehensive docstring with Args and Returns sections">>))
    ELSE <<>>

check_resource_function(node) ==
    LET D == node.decorator_list
    IN  Concat([i \in DOMAIN D |->
            IF /\ D[i].type = "Call"
               /\ D[i].func.type = "Attribute"
               /\ D[i].func.attr = "resource"
               /\ D[i].args = <<>>
            THEN add_error(Some(node.lineno), MsgResourceUri(node.name),
                           Some(<<"Use: @mcp.resource(\"resource://path\")">>))
            ELSE <<>>])

check_prompt_function(node) ==
    IF node.returns # None /\ node.returns[1] \notin {"str", "list[PromptMessage]"}
    THEN add_warning(Some(node.lineno), MsgPromptReturn(node.name, node.returns[1]),
                     Some(<<"Prompts typically return str or list[PromptMessage]">>))
    ELSE <<>>

(* The functions check_decorators visits, in visiting order.               *)
visited(t) == SelectSeq(walk(t), IsFunctionDef)

countOf(t, dname) ==
    Cardinality({i \in DOMAIN visited(t) : InList(dname, decoratorNames(visited(t)[i]))})

(* lines 161-173: what one iteration of the loop appends for `node`.       *)
handlerFindings(node) ==
    LET decorators == decoratorNames(node)
    IN  (IF InList(<<"mcp", "tool">>, decorators)
         THEN check_tool_function(node) ELSE <<>>) \o
        (IF InList(<<"mcp", "resource">>, decorators)
         THEN check_resource_function(node) ELSE <<>>) \o
        (IF InList(<<"mcp", "prompt">>, decorators)
         THEN check_prompt_function(node) ELSE <<>>)

check_decorators_summary_first(t, s) ==
    LET F == visited(t)
        tool_count == countOf(t, <<"mcp", "tool">>)
        resource_count == countOf(t, <<"mcp", "resource">>)
        prompt_count == countOf(t, <<"mcp", "prompt">>)
    IN  (IF tool_count = 0 /\ resource_count = 0 /\ prompt_count = 0
         THEN add_warning(None, MsgNoHandlers,
                          Some(<<"Add @mcp.tool(), @mcp.resource(), or @mcp.prompt() decorators">>))
         ELSE add_info(s, None, MsgFound(tool_count, resource_count, prompt_count), None)) \o
        Concat([i \in DOMAIN F |-> handlerFindings(F[i])])

check_decorators(t, s) ==
    LET F == visited(t)
        tool_count == countOf(t, <<"mcp", "tool">>)
        resource_count == countOf(t, <<"mcp", "resource">>)
        prompt_count == countOf(t, <<"mcp", "prompt">>)
        perNode == [i \in DOMAIN F |-> handlerFindings(F[i])]
    IN  Concat(perNode) \o
        (IF tool_count = 0 /\ resource_count = 0 /\ prompt_count = 0
         THEN add_warning(None, MsgNoHandlers,
                          Some(<<"Add @mcp.tool(), @mcp.resource(), or @mcp.prompt() decorators">>))
         ELSE add_info(s, None, MsgFound(tool_count, resource_count, prompt_count), None))

(* check_decorators raises: line 161 calls ast.unparse on a decorator it    *)
(* cannot visit.  The iterations before the raising one have appended      *)
(* their findings; nothing after line 161 of the raising iteration runs.   *)
raisingVisits(t) == {i \in DOMAIN visited(t) : decoratorsRaise(visited(t)[i])}
check_decorators_raises(t) == raisingVisits(t) # {}
check_decorators_before_raise(t) ==
    LET F == visited(t)
        r == CHOOSE i \in raisingVisits(t) : \A j \in raisingVisits(t) : i <= j
    IN  Concat([i \in 1..(r - 1) |-> handlerFindings(F[i])])

mcpFunctions_any_function(t) == SelectSeq(walk(t), IsFunctionDef)

(* The functions the later rules keep: plain FunctionDef nodes with a      *)
(* decorator whose name starts with "mcp.".                                *)
mcpFunctions(t) ==
    LET keep(n) == IsFunctionDef(n) /\ anyMcp(decoratorNames(n))
    IN  SelectSeq(walk(t), keep)

check_type_hints(t) ==
    LET F == mcpFunctions(t)
        perArg(node) == [j \in DOMAIN node.args.args |->
            LET a == node.args.args[j]
            IN  IF a.arg # "self" /\ a.annotation = None
                THEN add_warning(Some(node.lineno), MsgParamHint(a.arg, node.name),
                                 Some(<<"Add type hint: ", a.arg, ": str">>))
                ELSE <<>>]
        perNode == [i \in DOMAIN F |->
            Concat(perArg(F[i])) \o
            (IF F[i].returns = None
             THEN add_warning(Some(F[i].lineno), MsgReturnHint(F[i].name),
                              Some(<<"Add return type hint: -> str">>))
             ELSE <<>>)]
    IN  Concat(perNode)

check_async_patterns(t) ==
    LET F == mcpFunctions(t)
        perNode == [i \in DOMAIN F |->
            LET is_async == IsAsyncFunctionDef(F[i])
            IN  IF has_await(F[i]) /\ ~is_async
                THEN add_error(Some(F[i].lineno), MsgAwaitNotAsync(F[i].name),
                               Some(<<"Change to: async def ", F[i].name, "(...)">>))
                ELSE <<>>]
    IN  Concat(perNode)

(* "Context" in type_hint, for the annotation texts of the model.          *)
ContainsContext(type_hint) == type_hint \in {"Context", "Optional[Context]"}

check_context_usage(t) ==
    LET F == mcpFunctions(t)
        perNode == [i \in DOMAIN F |->
            LET A == F[i].args.args
                isCtx(a) == a.arg \in {"ctx", "context"}
                has_context_param == \E j \in DOMAIN A : isCtx(A[j])
                context_has_type_hint == \E j \in DOMAIN A :
                    /\ isCtx(A[j])
                    /\ A[j].annotation # None
                    /\ ContainsContext(A[j].annotation[1])
            IN  (IF has_context_param /\ ~context_has_type_hint
                 THEN add_error(Some(F[i].lineno), MsgCtxHint(F[i].name),
                                Some(<<"Add type hint: ctx: Context">>))
                 ELSE <<>>) \o
                (IF has_context_param /\ ~IsAsyncFunctionDef(F[i])
                 THEN add_warning(Some(F[i].lineno), MsgCtxNotAsync(F[i].name),
                                  Some(<<"Context methods are async - make function async">>))
                 ELSE <<>>)]
    IN  Concat(perNode)

check_best_practices(t, s) ==
    LET W == walk(t)
        has_main_block == \E i \in DOMAIN W :
            /\ W[i].type = "If"
            /\ W[i].test.type = "Compare"
            /\ W[i].test.left.type = "Name"
            /\ W[i].test.left.id = "__name__"
    IN  IF ~has_main_block
        THEN add_info(s, None, MsgNoMain, Some(<<"Add: if __name__ == '__main__': mcp.run()">>))
        ELSE <<>>

----------------------------------------------------------------------------
(* The report.  stdout is a tuple of lines; each line is a record.         *)
bySeverity(iss, sev) ==
    LET is(i) == i.severity = sev IN SelectSeq(iss, is)

HeaderLine == [kind |-> "header", path |-> FILEPATH]
SuccessLine == [kind |-> "success"]
BlankLine == [kind |-> "blank"]
GroupLine(sev, n) == [kind |-> "group", severity |-> sev, count |-> n]
SummaryLine(e, w, i) == [kind |-> "summary", errors |-> e, warnings |-> w, infos |-> i]

print_issue(issue) ==
    <<[kind |-> "issue",
       location |-> IF issue.line # None THEN <<"Line ", ToString(issue.line[1])>> ELSE <<"General">>,
       message |-> issue.message]>> \o
    (IF issue.suggestion # None
     THEN <<[kind |-> "suggestion", text |-> issue.suggestion[1]]>>
     ELSE <<>>)

printGroup(iss, sev) ==
    LET g == bySeverity(iss, sev)
    IN  IF g # <<>>
        THEN <<GroupLine(sev, Len(g))>> \o
             Concat([i \in DOMAIN g |-> print_issue(g[i])]) \o
             <<BlankLine>>
        ELSE <<>>

print_results_warnings_first(iss) ==
    IF iss = <<>>
    THEN <<SuccessLine>>
    ELSE printGroup(iss, "warning") \o printGroup(iss, "error") \o printGroup(iss, "info") \o
         <<SummaryLine(Len(bySeverity(iss, "error")), Len(bySeverity(iss, "warning")),
                       Len(bySeverity(iss, "info")))>>

print_results_success_without_errors(iss) ==
    IF bySeverity(iss, "error") = <<>>
    THEN <<SuccessLine>>
    ELSE printGroup(iss, "error") \o printGroup(iss, "warning") \o printGroup(iss, "info") \o
         <<SummaryLine(Len(bySeverity(iss, "error")), Len(bySeverity(iss, "warning")),
                       Len(bySeverity(iss, "info")))>>

print_results(iss) ==
    IF iss = <<>>
    THEN <<SuccessLine>>
    ELSE printGroup(iss, "error") \o printGroup(iss, "warning") \o printGroup(iss, "info") \o
         <<SummaryLine(Len(bySeverity(iss, "error")), Len(bySeverity(iss, "warning")),
                       Len(bySeverity(iss, "info")))>>

----------------------------------------------------------------------------
(* The files the tool is run on.                                           *)
MissingFile == [status |-> "missing"]       \* filepath.exists() is false
UnopenableFile == [status |-> "unopenable"] \* open() raises
UnreadableFile == [status |-> "unreadable"] \* f.read() raises
InvalidFile(line) == [status |-> "invalid", lineno |-> line, msg |-> "invalid syntax"]
ValidFile(t) == [status |-> "valid", tree |-> t]

(* Decorators.                                                             *)
McpCall(attr, args) == Call(Attribute(Name("mcp"), attr), args)
DTool == McpCall("tool", <<>>)                         \* @mcp.tool()
DResource == McpCall("resource", <<>>)                 \* @mcp.resource()
DResourceUri == McpCall("resource", <<Constant("resource://x")>>)
DPrompt == McpCall("prompt", <<>>)                     \* @mcp.prompt()
DCustom == McpCall("custom_route", <<Constant("/health")>>)

DecoratorLists == {<<>>, <<DTool>>, <<DResource>>, <<DResourceUri>>, <<DPrompt>>, <<DCustom>>}

ArgLists == {<<>>, <<arg("x", None)>>, <<arg("x", Some("str"))>>,
             <<arg("ctx", None)>>, <<arg("ctx", Some("str"))>>,
             <<arg("ctx", Some("Context"))>>, <<arg("ctx", Some("Optional[Context]"))>>}

ReturnHints == {None, Some("str"), Some("int"), Some("list[PromptMessage]")}

FunctionTypes == {"FunctionDef", "AsyncFunctionDef"}

(* def/async def `name` at `line`, with or without a docstring and an      *)
(* await statement, followed by further statements `more`.                 *)
Function(type, line, name, decs, args, returns, doc, aw, more) ==
    LET body == (IF doc THEN <<ExprStmt(line + 1, Constant("doc"))>> ELSE <<>>) \o
                (IF aw THEN <<ExprStmt(line + 2, AwaitExpr)>> ELSE <<Pass(line + 2)>>) \o
                more
    IN  IF type = "FunctionDef"
        THEN FunctionDef(line, name, decs, arguments(args, <<>>), returns, body)
        ELSE AsyncFunctionDef(line, name, decs, arguments(args, <<>>), returns, body)

Functions ==
    {Function(ty, 5, "f", d, a, r, doc, aw, <<>>) :
        ty \in FunctionTypes, d \in DecoratorLists, a \in ArgLists,
        r \in ReturnHints, doc \in BOOLEAN, aw \in BOOLEAN}

SimpleFunctions ==
    {<<>>} \cup
    {<<Function(ty, 5, "f", <<DTool>>, <<arg("x", Some("str"))>>, Some("str"), TRUE, FALSE, <<>>)>> :
        ty \in FunctionTypes}

ImportStmts ==
    {<<>>,
     <<ImportFrom(1, "fastmcp", <<"FastMCP">>)>>,
     <<ImportFrom(1, "fastmcp", <<"Context">>)>>,
     <<ImportFrom(1, "fastmcp", <<"FastMCP", "Context">>)>>,
     <<ImportFrom(1, "fastmcp", <<"FastMCP">>), ImportFrom(2, "fastmcp", <<"Context">>)>>,
     <<Import(1, <<"fastmcp">>)>>}

ServerStmts ==
    {<<>>,
     <<Assign(3, Call(Name("FastMCP"), <<Constant("server-name")>>))>>,
     <<Assign(3, Call(Name("FastMCP"), <<>>))>>,
     <<AnnAssign(3, Call(Name("FastMCP"), <<Constant("server-name")>>))>>}

MainGuard == If(9, Compare(Name("__name__"), Constant("__main__")),
                <<ExprStmt(10, Call(Attribute(Name("mcp"), "run"), <<>>))>>)

GuardStmts == {<<>>, <<MainGuard>>}

CleanPrelude == <<ImportFrom(1, "fastmcp", <<"FastMCP">>),
                  Assign(3, Call(Name("FastMCP"), <<Constant("server-name")>>))>>

(* A function f with a nested function g in its body, optionally followed *)
(* by a third, top-level function h.                                      *)
NestedDecorators == {<<>>, <<DTool>>}

Inner(ty, d, aw) == Function(ty, 8, "g", d, <<>>, None, TRUE, aw, <<>>)
Outer(ty, d, inner) == Function(ty, 5, "f", d, <<>>, None, TRUE, FALSE, <<inner>>)
Later(ty, d, aw) == Function(ty, 12, "h", d, <<>>, None, TRUE, aw, <<>>)

NestedTrees ==
    LET outers == {Outer(ty, d, Inner(ty2, d2, aw)) :
                      ty \in FunctionTypes, d \in NestedDecorators,
                      ty2 \in FunctionTypes, d2 \in NestedDecorators, aw \in BOOLEAN}
        laters == {<<>>} \cup
                  {<<Later(ty, d, aw)>> :
                      ty \in FunctionTypes, d \in NestedDecorators, aw \in BOOLEAN}
    IN  {Module(CleanPrelude \o <<o>> \o l \o <<MainGuard>>) : o \in outers, l \in laters}

(* Decorators that name a category without being mcp.<category>(...), and  *)
(* parameter lists with self or keyword-only parameters.                   *)
OtherDecoratorLists ==
    {<<Name("tool")>>,
     <<Call(Attribute(Name("server"), "tool"), <<>>)>>,
     <<Attribute(Name("mcp"), "tool")>>}

OtherArguments ==
    {arguments(<<arg("x", Some("str"))>>, <<arg("k", None)>>),
     arguments(<<arg("self", None), arg("x", None)>>, <<>>)}

OtherFunctions ==
    {Function(ty, 5, "f", d, <<arg("x", None)>>, None, doc, FALSE, <<>>) :
        ty \in FunctionTypes, d \in OtherDecoratorLists, doc \in BOOLEAN}
    \cup {FunctionDef(5, "f", <<DTool>>, a, Some("str"), <<Pass(6)>>) : a \in OtherArguments}
    \cup {AsyncFunctionDef(5, "f", <<DTool>>, a, Some("str"), <<Pass(6)>>) : a \in OtherArguments}

OtherTrees == {Module(CleanPrelude \o <<f, MainGuard>>) : f \in OtherFunctions}

(* Server assignments and conditionals placed inside a function body, and  *)
(* top-level conditionals that are not the entry-point guard.              *)
Guard(line, left, right) == If(line, Compare(Name(left), Constant(right)), <<Pass(line + 1)>>)

NestedStmts ==
    {Assign(8, Call(Name("FastMCP"), <<Constant("server-name")>>)),
     Assign(8, Call(Name("FastMCP"), <<>>)),
     Guard(8, "__name__", "__main__")}

TopGuards ==
    {<<>>, <<MainGuard>>, <<Guard(12, "__name__", "other")>>, <<Guard(12, "x", "__main__")>>}

PlacementTrees ==
    {Module(p \o <<Function("FunctionDef", 5, "f", <<>>, <<>>, Some("str"), TRUE, FALSE, <<s>>)>> \o g) :
        p \in {<<ImportFrom(1, "fastmcp", <<"FastMCP">>)>>, CleanPrelude},
        s \in NestedStmts, g \in TopGuards}
    \cup {Module(<<ImportFrom(1, "fastmcp", <<"FastMCP">>),
                   Assign(3, Call(Name("FastMCP"), a)),
                   Assign(4, Call(Name("FastMCP"), <<>>))>>) :
              a \in {<<>>, <<Constant("server-name")>>}}

Trees ==
    {Module(i \o sv \o f \o g) :
        i \in ImportStmts, sv \in ServerStmts, f \in SimpleFunctions, g \in GuardStmts}
    \cup {Module(CleanPrelude \o <<f, MainGuard>>) : f \in Functions}
    \cup {Module(<<f>>) : f \in Functions}
    \cup NestedTrees
    \cup OtherTrees
    \cup PlacementTrees

(* Files with a decorator ast.unparse cannot visit, on a def or an async   *)
(* def, alone or after a tool without docstring.                           *)
DDeep == Call(Attribute(DeepAttribute, "tool"), <<>>)
UndocumentedTool == Function("FunctionDef", 5, "f", <<DTool>>, <<>>, Some("str"), FALSE, FALSE, <<>>)
RaisingTrees ==
    {Module(p \o e \o <<Function(ty, 12, "h", <<DDeep>>, <<>>, None, TRUE, aw, <<>>)>>) :
        p \in {<<>>, CleanPrelude}, e \in {<<>>, <<UndocumentedTool>>},
        ty \in FunctionTypes, aw \in BOOLEAN}
RaisingFiles == {ValidFile(t) : t \in RaisingTrees}

Files ==
    {MissingFile, UnopenableFile, UnreadableFile}
    \cup {InvalidFile(l) : l \in 1..MaxErrLine}
    \cup {ValidFile(t) : t \in Trees}

----------------------------------------------------------------------------
parse_tolerant(src) ==
    [ok |-> TRUE, tree |-> IF src.status = "valid" THEN src.tree ELSE Module(<<>>)]

(* ast.parse(content): the tree of a valid source, a SyntaxError otherwise. *)
parse(src) ==
    IF src.status = "valid"
    THEN [ok |-> TRUE, tree |-> src.tree]
    ELSE [ok |-> FALSE, lineno |-> src.lineno, msg |-> src.msg]

has_errors_warnings_too(iss) ==
    \E i \in DOMAIN iss : iss[i].severity \in {"error", "warning"}

(* has_errors = any(issue.severity == "error" for issue in self.issues)    *)
has_errors(iss) == \E i \in DOMAIN iss : iss[i].severity = "error"

(* FastMCPValidator(args.file, strict=args.strict): the state __init__     *)
(* leaves, main() about to call validate().                                *)
Constructed(s) ==
    /\ strict = s
    /\ issues = <<>>
    /\ tree = None
    /\ handle = "none"
    /\ content = None
    /\ stdout = <<>>
    /\ success = None
    /\ exitCode = None
    /\ calls = <<>>
    /\ pc = "validate"

Init ==
    /\ file \in Files
    /\ \E s \in BOOLEAN : Constructed(s)
    /\ prev = <<>>

(* validate() returns False from one of its early exits.                   *)
ReturnFalse(issue) ==
    /\ issues' = issues \o issue
    /\ success' = Some(FALSE)
    /\ pc' = "exit"

Validate_eager ==
    /\ pc = "validate"
    /\ stdout' = Append(stdout, HeaderLine) \o <<SuccessLine>>
    /\ pc' = "exists"
    /\ UNCHANGED <<file, strict, issues, tree, handle, content, success, exitCode, calls, prev>>

(* line 51: the header is printed on entry to validate().                  *)
Validate ==
    /\ pc = "validate"
    /\ stdout' = Append(stdout, HeaderLine)
    /\ pc' = "exists"
    /\ UNCHANGED <<file, strict, issues, tree, handle, content, success, exitCode, calls, prev>>

(* lines 53-56 *)
CheckExists ==
    /\ pc = "exists"
    /\ IF file.status = "missing"
       THEN ReturnFalse(add_error(None, MsgNotFound, None))
       ELSE /\ pc' = "open"
            /\ UNCHANGED <<issues, success>>
    /\ UNCHANGED <<file, strict, tree, handle, content, stdout, exitCode, calls, prev>>

(* line 60: open(self.filepath); an exception leaves no file object.       *)
OpenFile ==
    /\ pc = "open"
    /\ IF file.status = "unopenable"
       THEN /\ ReturnFalse(add_error(None, MsgReadFailed, None))
            /\ UNCHANGED handle
       ELSE /\ handle' = "open"
            /\ pc' = "read"
            /\ UNCHANGED <<issues, success>>
    /\ UNCHANGED <<file, strict, tree, content, stdout, exitCode, calls, prev>>

ReadFile_without_with ==
    /\ pc = "read"
    /\ IF file.status = "unreadable"
       THEN /\ ReturnFalse(add_error(None, MsgReadFailed, None))
            /\ UNCHANGED <<content, handle>>
       ELSE /\ content' = Some(file)
            /\ handle' = "closed"
            /\ pc' = "parse"
            /\ UNCHANGED <<issues, success>>
    /\ UNCHANGED <<file, strict, tree, stdout, exitCode, calls, prev>>

(* lines 60-64: f.read() inside the with block; leaving the block, by      *)
(* normal exit or by exception, closes the file object.                    *)
ReadFile ==
    /\ pc = "read"
    /\ handle' = "closed"
    /\ IF file.status = "unreadable"
       THEN /\ ReturnFalse(add_error(None, MsgReadFailed, None))
            /\ UNCHANGED content
       ELSE /\ content' = Some(file)
            /\ pc' = "parse"
            /\ UNCHANGED <<issues, success>>
    /\ UNCHANGED <<file, strict, tree, stdout, exitCode, calls, prev>>

(* lines 66-71 *)
ParsePython ==
    /\ pc = "parse"
    /\ LET r == parse(content[1])
       IN  IF r.ok
           THEN /\ tree' = Some(r.tree)
                /\ pc' = "check_imports"
                /\ UNCHANGED <<issues, success>>
           ELSE /\ ReturnFalse(add_error(Some(r.lineno), MsgSyntax(r.msg), None))
                /\ UNCHANGED tree
    /\ UNCHANGED <<file, strict, handle, content, stdout, exitCode, calls, prev>>

RunCheck_prepends(name, found, next) ==
    /\ pc = name
    /\ ~(name = "check_decorators" /\ check_decorators_raises(tree[1]))
    /\ issues' = found \o issues
    /\ calls' = Append(calls, name)
    /\ pc' = next
    /\ UNCHANGED <<file, strict, tree, handle, content, stdout, success, exitCode, prev>>

(* One call of lines 74-80: rule `name` appends `found`, then `next`.      *)
RunCheck(name, found, next) ==
    /\ pc = name
    /\ ~(name = "check_decorators" /\ check_decorators_raises(tree[1]))
    /\ issues' = issues \o found
    /\ calls' = Append(calls, name)
    /\ pc' = next
    /\ UNCHANGED <<file, strict, tree, handle, content, stdout, success, exitCode, prev>>

CheckImports == RunCheck("check_imports", check_imports(tree[1]), "check_server_init")
CheckServerInit == RunCheck("check_server_init", check_server_init(tree[1]), "check_decorators")
CheckDecorators == RunCheck("check_decorators", check_decorators(tree[1], strict), "check_type_hints")
CheckTypeHints == RunCheck("check_type_hints", check_type_hints(tree[1]), "check_async_patterns")
CheckAsyncPatterns == RunCheck("check_async_patterns", check_async_patterns(tree[1]), "check_context_usage")
CheckContextUsage == RunCheck("check_context_usage", check_context_usage(tree[1]), "check_best_practices")
CheckBestPractices == RunCheck("check_best_practices", check_best_practices(tree[1], strict), "print_results")

(* line 76 when check_decorators raises: no try statement encloses the     *)
(* calls of lines 74-80, so the exception leaves validate() and main().    *)
CheckDecoratorsRaises ==
    /\ pc = "check_decorators"
    /\ check_decorators_raises(tree[1])
    /\ issues' = issues \o check_decorators_before_raise(tree[1])
    /\ calls' = Append(calls, "check_decorators")
    /\ pc' = "raised"
    /\ UNCHANGED <<file, strict, tree, handle, content, stdout, success, exitCode, prev>>

(* The interpreter ends on the uncaught exception: traceback on stderr,    *)
(* exit status 1; sys.exit of line 421 is never reached.                   *)
UncaughtException ==
    /\ pc = "raised"
    /\ exitCode' = Some(1)
    /\ pc' = "crashed"
    /\ UNCHANGED <<file, strict, issues, tree, handle, content, stdout, success, calls, prev>>

(* line 83 *)
PrintResults ==
    /\ pc = "print_results"
    /\ stdout' = stdout \o print_results(issues)
    /\ pc' = "verdict"
    /\ UNCHANGED <<file, strict, issues, tree, handle, content, success, exitCode, calls, prev>>

(* lines 85-87 *)
Verdict ==
    /\ pc = "verdict"
    /\ success' = Some(~has_errors(issues))
    /\ pc' = "exit"
    /\ UNCHANGED <<file, strict, issues, tree, handle, content, stdout, exitCode, calls, prev>>

exit_status_inverted(ok) == IF ok THEN 1 ELSE 0

(* line 421: the argument of sys.exit(0 if success else 1) *)
exit_status(ok) == IF ok THEN 0 ELSE 1

SysExit ==
    /\ pc = "exit"
    /\ exitCode' = Some(exit_status(success[1]))
    /\ pc' = "done"
    /\ UNCHANGED <<file, strict, issues, tree, handle, content, stdout, success, calls, prev>>

(* The tool is invoked again on the same, unchanged file: main() builds a  *)
(* fresh validator.  The finished invocation is remembered in prev.        *)
Finished == [strict |-> strict, issues |-> issues, stdout |-> stdout,
             success |-> success[1], exitCode |-> exitCode[1]]

Reinvoke_keeps_issues ==
    /\ pc = "done"
    /\ Len(prev) + 1 < MaxRuns
    /\ prev' = Append(prev, Finished)
    /\ \E s \in BOOLEAN :
        /\ strict' = s
        /\ issues' = issues
        /\ tree' = None
        /\ handle' = "none"
        /\ content' = None
        /\ stdout' = <<>>
        /\ success' = None
        /\ exitCode' = None
        /\ calls' = <<>>
        /\ pc' = "validate"
    /\ UNCHANGED file

Reinvoke ==
    /\ pc = "done"
    /\ Len(prev) + 1 < MaxRuns
    /\ prev' = Append(prev, Finished)
    /\ \E s \in BOOLEAN :
        /\ strict' = s
        /\ issues' = <<>>
        /\ tree' = None
        /\ handle' = "none"
        /\ content' = None
        /\ stdout' = <<>>
        /\ success' = None
        /\ exitCode' = None
        /\ calls' = <<>>
        /\ pc' = "validate"
    /\ UNCHANGED file

Next ==
    \/ Validate
    \/ CheckExists
    \/ OpenFile
    \/ ReadFile
    \/ ParsePython
    \/ CheckImports
    \/ CheckServerInit
    \/ CheckDecorators
    \/ CheckTypeHints
    \/ CheckAsyncPatterns
    \/ CheckContextUsage
    \/ CheckBestPractices
    \/ PrintResults
    \/ Verdict
    \/ SysExit
    \/ Reinvoke

Spec == Init /\ [][Next]_vars

(* The same program on inputs that also include files on which a rule      *)
(* raises.                                                                 *)
InitRaise ==
    /\ file \in Files \cup RaisingFiles
    /\ \E s \in BOOLEAN : Constructed(s)
    /\ prev = <<>>

NextRaise ==
    \/ Next
    \/ CheckDecoratorsRaises
    \/ UncaughtException

SpecRaise == InitRaise /\ [][NextRaise]_vars

----------------------------------------------------------------------------
(* Vocabulary of the properties, stated on the file and the finding list   *)
(* without the rule operators.                                             *)
Count(iss, sev) == Cardinality({i \in DOMAIN iss : iss[i].severity = sev})
CountMsg(iss, sev, msg) ==
    Cardinality({i \in DOMAIN iss : iss[i].severity = sev /\ iss[i].message = msg})
NoInfo(iss) == LET keep(i) == i.severity # "info" IN SelectSeq(iss, keep)

Parseable == file.status = "valid"
Returned == success # None
Exited == pc = "done"
RulePassDone == Exited /\ Parseable

AnyFunction(n) == n.type \in {"FunctionDef", "AsyncFunctionDef"}
AllFunctions(t) == SelectSeq(walk(t), AnyFunction)
Callee(d) == IF d.type = "Call" THEN d.func ELSE d
DecoratedWith(n, attr) ==
    \E i \in DOMAIN n.decorator_list :
        /\ Callee(n.decorator_list[i]).type = "Attribute"
        /\ Callee(n.decorator_list[i]).attr = attr
        /\ Callee(n.decorator_list[i]).value = Name("mcp")
IsHandler(n) == \E a \in {"tool", "resource", "prompt"} : DecoratedWith(n, a)
HandlersOf(t) == LET h(n) == AnyFunction(n) /\ IsHandler(n) IN SelectSeq(walk(t), h)

(* C1. Verdict law: whenever validate() has returned, by whatever path, its *)
(* result is true exactly when the finding list holds no error finding.     *)
C1_VerdictLaw == Returned => (success[1] <=> Count(issues, "error") = 0)

C1_Witness ==
    /\ Exited
    /\ success = Some(TRUE)
    /\ Count(issues, "warning") > 0

(* C2. Exit code: the process exits with 0 exactly when no error finding    *)
(* was recorded, with 1 otherwise (in particular when the file is missing,  *)
(* unreadable or unparsable), and with no other code.                       *)
C2_ExitCode ==
    Exited =>
        /\ exitCode[1] \in {0, 1}
        /\ exitCode[1] = 0 <=> Count(issues, "error") = 0
        /\ ~Parseable => exitCode[1] = 1

C2_Witness ==
    /\ Exited
    /\ Parseable
    /\ exitCode = Some(1)
    /\ Count(issues, "error") > 1

(* C4. Parser gate: on input that fails to parse, no tree is ever stored    *)
(* and no check_* method is ever called; the run ends with exactly one      *)
(* finding, an error.                                                       *)
C4_ParserGate ==
    file.status = "invalid" =>
        /\ tree = None
        /\ calls = <<>>
        /\ Returned => Len(issues) = 1 /\ issues[1].severity = "error"

C4_Witness ==
    /\ file.status = "invalid"
    /\ Exited
    /\ issues = add_error(Some(file.lineno), MsgSyntax(file.msg), None)

(* C6. Strict-mode monotonicity: of two finished runs on the same file, one *)
(* strict and one not, the non-strict finding list is the strict one with   *)
(* its info findings removed (same findings, same order).                   *)
C6_StrictMonotone ==
    Exited =>
        \A k \in DOMAIN prev :
            /\ (prev[k].strict /\ ~strict) => issues = NoInfo(prev[k].issues)
            /\ (~prev[k].strict /\ strict) => prev[k].issues = NoInfo(issues)

C6_Witness ==
    /\ Exited
    /\ prev # <<>>
    /\ prev[1].strict
    /\ ~strict
    /\ Count(prev[1].issues, "info") = 2
    /\ Len(issues) > 0

(* Features of a file, read off its tree.                                  *)
RECURSIVE ContainsAwait(_)
ContainsAwait(n) ==
    \/ n.type = "Await"
    \/ \E i \in DOMAIN iter_child_nodes(n) : ContainsAwait(iter_child_nodes(n)[i])

FrameworkImports(t) ==
    LET imp(n) == \/ n.type = "ImportFrom" /\ n.module = "fastmcp"
                  \/ n.type = "Import" /\ InList("fastmcp", n.names)
    IN  SelectSeq(walk(t), imp)
ImportsFastMCP(t) ==
    /\ FrameworkImports(t) # <<>>
    /\ \A i \in DOMAIN FrameworkImports(t) :
        /\ FrameworkImports(t)[i].type = "ImportFrom"
        /\ InList("FastMCP", FrameworkImports(t)[i].names)
ServerDeclarations(t) ==
    LET decl(n) == /\ n.type \in {"Assign", "AnnAssign"}
                   /\ n.value.type = "Call"
                   /\ n.value.func = Name("FastMCP")
    IN  SelectSeq(walk(t), decl)
NamedServer(t) ==
    /\ ServerDeclarations(t) # <<>>
    /\ \A i \in DOMAIN ServerDeclarations(t) : ServerDeclarations(t)[i].value.args # <<>>
HasGuard(t) ==
    \E i \in DOMAIN t.body :
        /\ t.body[i].type = "If"
        /\ t.body[i].test = Compare(Name("__name__"), Constant("__main__"))
HasDocstring(n) ==
    /\ n.body # <<>>
    /\ n.body[1].type = "Expr"
    /\ n.body[1].value.type = "Constant"
    /\ n.body[1].value.value # ""
FullyAnnotated(n) ==
    /\ n.returns # None
    /\ \A j \in DOMAIN n.args.args :
        /\ n.args.args[j].annotation # None
        /\ n.args.args[j].arg \in {"ctx", "context"} =>
               n.args.args[j].annotation \in {Some("Context"), Some("Optional[Context]")}
ResourceCalls(n, nargs) ==
    {i \in DOMAIN n.decorator_list :
        /\ n.decorator_list[i].type = "Call"
        /\ n.decorator_list[i].func = Attribute(Name("mcp"), "resource")
        /\ Len(n.decorator_list[i].args) = nargs}
UsualPromptReturn(n) ==
    DecoratedWith(n, "prompt") => n.returns \in {Some("str"), Some("list[PromptMessage]")}
HasContextParam(n) == \E j \in DOMAIN n.args.args : n.args.args[j].arg \in {"ctx", "context"}

(* C3. Scenario B: non-strict run on a file that imports FastMCP, declares  *)
(* a named server, has an entry-point guard and exactly one function, an    *)
(* async def handler with docstring and full annotations: no finding at     *)
(* all, exit code 0.                                                        *)
ScenarioB(t) ==
    /\ ImportsFastMCP(t)
    /\ NamedServer(t)
    /\ HasGuard(t)
    /\ Len(AllFunctions(t)) = 1
    /\ LET h == AllFunctions(t)[1]
       IN  /\ h.type = "AsyncFunctionDef"
           /\ IsHandler(h)
           /\ HasDocstring(h)
           /\ FullyAnnotated(h)
           /\ UsualPromptReturn(h)
           /\ ResourceCalls(h, 0) = {}

C3_ScenarioB ==
    (RulePassDone /\ ~strict /\ ScenarioB(file.tree)) =>
        issues = <<>> /\ exitCode = Some(0)

(* C5. Every recorded finding is shown in the report by the time the       *)
(* process has exited.                                                     *)
Printed(issue) ==
    \E j \in DOMAIN stdout : stdout[j].kind = "issue" /\ stdout[j].message = issue.message

C5_AllFindingsPrinted ==
    Exited => \A i \in DOMAIN issues : Printed(issues[i])

(* C7. Scenario C: every handler declared with plain def whose subtree      *)
(* contains an await gets exactly one error naming it as using await        *)
(* without being async, and the run exits with 1; when the file has nothing *)
(* else a rule calls an error, that is the only error of the run.           *)
SyncAwaitHandler(n) == n.type = "FunctionDef" /\ IsHandler(n) /\ ContainsAwait(n)

NoOtherErrorSource(t) ==
    /\ ImportsFastMCP(t)
    /\ NamedServer(t)
    /\ Len(AllFunctions(t)) = 1
    /\ ~HasContextParam(AllFunctions(t)[1])
    /\ ResourceCalls(AllFunctions(t)[1], 0) = {}

C7_ScenarioC ==
    RulePassDone =>
        \A i \in DOMAIN AllFunctions(file.tree) :
            LET n == AllFunctions(file.tree)[i]
            IN  SyncAwaitHandler(n) =>
                    /\ CountMsg(issues, "error", MsgAwaitNotAsync(n.name)) = 1
                    /\ exitCode = Some(1)
                    /\ NoOtherErrorSource(file.tree) => Count(issues, "error") = 1

C7_Witness ==
    /\ RulePassDone
    /\ NoOtherErrorSource(file.tree)
    /\ SyncAwaitHandler(AllFunctions(file.tree)[1])
    /\ Count(issues, "error") = 1
    /\ exitCode = Some(1)

C7_WitnessNested ==
    /\ RulePassDone
    /\ Len(AllFunctions(file.tree)) = 3
    /\ \A i \in 1..3 : SyncAwaitHandler(AllFunctions(file.tree)[i])
    /\ Count(issues, "error") = 3

(* C8. Resource-URI rule: every resource handler, def or async def, whose   *)
(* resource decorator is called without arguments gets exactly one error    *)
(* demanding a URI; one whose decorator call has a URI argument gets none.  *)
C8_ResourceUri ==
    RulePassDone =>
        \A i \in DOMAIN AllFunctions(file.tree) :
            LET n == AllFunctions(file.tree)[i]
            IN  DecoratedWith(n, "resource") =>
                    CountMsg(issues, "error", MsgResourceUri(n.name)) =
                        (IF ResourceCalls(n, 0) # {} THEN 1 ELSE 0)

(* C9. Scenario A: a parseable file with no framework import and no server  *)
(* declaration: the findings start with the missing-import error followed   *)
(* by the missing-server-initialization error, the exit code is 1, and      *)
(* these two are the only errors when the file has no decorated function.   *)
ScenarioA(t) == FrameworkImports(t) = <<>> /\ ServerDeclarations(t) = <<>>
Undecorated(t) ==
    \A i \in DOMAIN AllFunctions(t) : AllFunctions(t)[i].decorator_list = <<>>

C9_ScenarioA ==
    (RulePassDone /\ ScenarioA(file.tree)) =>
        /\ Len(issues) >= 2
        /\ issues[1].severity = "error" /\ issues[1].message = MsgMissingImport
        /\ issues[2].severity = "error" /\ issues[2].message = MsgNoServerInit
        /\ CountMsg(issues, "error", MsgMissingImport) = 1
        /\ CountMsg(issues, "error", MsgNoServerInit) = 1
        /\ exitCode = Some(1)
        /\ Undecorated(file.tree) => Count(issues, "error") = 2

C9_Witness ==
    /\ RulePassDone
    /\ ScenarioA(file.tree)
    /\ Undecorated(file.tree)
    /\ AllFunctions(file.tree) # <<>>
    /\ Count(issues, "error") = 2
    /\ exitCode = Some(1)

(* C10. A parseable file without any function carrying an mcp.-prefixed     *)
(* decorator gets the "no handlers" warning exactly once, no other warning  *)
(* than "FastMCP class not imported" ones, and no error other than the      *)
(* missing-import and missing/invalid server-initialization errors.         *)
McpDecorated(n) ==
    \E i \in DOMAIN n.decorator_list :
        /\ Callee(n.decorator_list[i]).type = "Attribute"
        /\ Callee(n.decorator_list[i]).value = Name("mcp")
NoMcpDecorated(t) ==
    \A i \in DOMAIN AllFunctions(t) : ~McpDecorated(AllFunctions(t)[i])
OnlyPreludeErrors(iss) ==
    \A i \in DOMAIN iss :
        iss[i].severity = "error" =>
            iss[i].message \in {MsgMissingImport, MsgNoServerInit, MsgNoServerName}

----------------------------------------------------------------------------
(* The rule of a finding, read off its message: the seven check_* methods  *)
(* in call order, and the ten rules in the order the specification lists   *)
(* them.                                                                   *)
Rules == <<"check_imports", "check_server_init", "check_decorators", "check_type_hints",
           "check_async_patterns", "check_context_usage", "check_best_practices">>

SpecRuleOf(m) ==
    CASE m \in {MsgNoImportClass, MsgMissingImport} -> 1
      [] m \in {MsgNoServerName, MsgNoServerInit} -> 2
      [] m = MsgNoHandlers \/ m[1] = "Found: " -> 3
      [] m[1] = "Tool '" -> 4
      [] m[1] = "Resource '" -> 5
      [] m[1] = "Prompt '" -> 6
      [] m[1] = "Parameter '" -> 7
      [] m[1] = "Function '" /\ m[3] = "' missing return type hint" -> 7
      [] m[1] = "Function '" /\ m[3] = "' uses await but is not async" -> 8
      [] m[1] = "Context parameter in '" -> 9
      [] m[1] = "Function '" /\ m[3] = "' has Context parameter but is not async" -> 9
      [] m = MsgNoMain -> 10
      [] OTHER -> 0

MethodOf(m) ==
    CASE SpecRuleOf(m) \in {1, 2} -> SpecRuleOf(m)
      [] SpecRuleOf(m) \in 3..6 -> 3
      [] SpecRuleOf(m) \in 7..10 -> SpecRuleOf(m) - 3
      [] OTHER -> 0

Ended == pc \in {"done", "crashed"}
FailingRule == "check_decorators"
RuleFails(t) ==
    \E i \in DOMAIN AllFunctions(t) :
        /\ AllFunctions(t)[i].type = "FunctionDef"
        /\ \E d \in DOMAIN AllFunctions(t)[i].decorator_list :
               Callee(AllFunctions(t)[i].decorator_list[d]).value = DeepAttribute
Names(issue, rule) == \E k \in DOMAIN issue.message : issue.message[k] = rule

C12_RuleIsolation ==
    (Ended /\ Parseable /\ RuleFails(file.tree)) =>
        /\ Returned
        /\ Cardinality({i \in DOMAIN issues :
               issues[i].severity = "error" /\ Names(issues[i], FailingRule)}) = 1
        /\ calls = Rules
        /\ \E j \in DOMAIN stdout : stdout[j].kind = "summary"

(* C13. No report line is written before the last rule has completed: up  *)
(* to then standard output holds nothing but the header line, which is     *)
(* printed first, on entry to validate().                                  *)
C13_ReportAfterRules ==
    stdout # <<>> =>
        /\ stdout[1] = HeaderLine
        /\ \A j \in DOMAIN stdout : j > 1 => calls = Rules

C13_Witness ==
    /\ pc = "verdict"
    /\ calls = Rules
    /\ Len(stdout) > 2

(* C13 as first stated: nothing at all is on standard output before the    *)
(* last rule has completed.                                                *)
C13_AsStated == stdout # <<>> => calls = Rules

(* C14. Report grouping: for a non-empty finding list the report has the   *)
(* error, warning and info groups in that order, each present exactly when *)
(* non-empty and headed by its count, each listing its findings in         *)
(* aggregation order, then one summary line with the three counts, which   *)
(* sum to the number of findings.                                          *)
ReportPrinted == Parseable /\ pc \in {"verdict", "exit", "done"}
Severities == <<"error", "warning", "info">>
Those(iss, sev) == LET is(i) == i.severity = sev IN SelectSeq(iss, is)
Lines(out, k) == LET is(l) == l.kind = k IN SelectSeq(out, is)
Grouped(iss) == Those(iss, "error") \o Those(iss, "warning") \o Those(iss, "info")
IssueLinesBefore(out, p) == Cardinality({q \in 1..(p - 1) : out[q].kind = "issue"})
FindingsBefore(iss, sev) ==
    CASE sev = "error" -> 0
      [] sev = "warning" -> Count(iss, "error")
      [] sev = "info" -> Count(iss, "error") + Count(iss, "warning")

C14_ReportGrouping ==
    (ReportPrinted /\ issues # <<>>) =>
        LET R == Tail(stdout)
            G == Lines(R, "group")
            I == Lines(R, "issue")
        IN  /\ Len(G) = Cardinality({k \in 1..3 : Count(issues, Severities[k]) > 0})
            /\ \A p \in DOMAIN R :
                   R[p].kind = "group" =>
                       /\ R[p].count = Count(issues, R[p].severity)
                       /\ R[p].count > 0
                       /\ IssueLinesBefore(R, p) = FindingsBefore(issues, R[p].severity)
                       /\ R[p + 1].kind = "issue"
            /\ Len(I) = Len(issues)
            /\ \A q \in DOMAIN I :
                   /\ I[q].message = Grouped(issues)[q].message
                   /\ I[q].location = <<"General">> <=> Grouped(issues)[q].line = None
            /\ Len(Lines(R, "summary")) = 1
            /\ R[Len(R)] = SummaryLine(Count(issues, "error"), Count(issues, "warning"),
                                        Count(issues, "info"))
            /\ Count(issues, "error") + Count(issues, "warning") + Count(issues, "info")
                   = Len(issues)

C14_Witness ==
    /\ ReportPrinted
    /\ Count(issues, "error") >= 2
    /\ Count(issues, "warning") >= 2
    /\ Count(issues, "info") >= 1
    /\ issues[1].severity = "warning"
    /\ Len(Lines(stdout, "group")) = 3

(* C15. A run that completed the rule pass without any finding prints the  *)
(* single success line, no group and no summary; the success line is never *)
(* printed when a finding exists.                                          *)
C15_SuccessLine ==
    /\ (ReportPrinted /\ issues = <<>>) => stdout = <<HeaderLine, SuccessLine>>
    /\ (\E j \in DOMAIN stdout : stdout[j].kind = "success") => issues = <<>>

C15_Witness ==
    /\ Exited
    /\ Parseable
    /\ issues = <<>>
    /\ AllFunctions(file.tree) # <<>>

InCategory(n, cat) ==
    \E d \in DOMAIN n.decorator_list :
        \E k \in DOMAIN get_decorator_name(n.decorator_list[d]) :
            get_decorator_name(n.decorator_list[d])[k] = cat
CategoryCount(t, cat) ==
    Cardinality({i \in DOMAIN AllFunctions(t) : InCategory(AllFunctions(t)[i], cat)})
Summaries(iss) == Cardinality({i \in DOMAIN iss : iss[i].message[1] = "Found: "})

C17_Inventory ==
    RulePassDone =>
        LET T == CategoryCount(file.tree, "tool")
            R == CategoryCount(file.tree, "resource")
            P == CategoryCount(file.tree, "prompt")
        IN  IF T + R + P = 0
            THEN CountMsg(issues, "warning", MsgNoHandlers) = 1 /\ Summaries(issues) = 0
            ELSE /\ CountMsg(issues, "warning", MsgNoHandlers) = 0
                 /\ Summaries(issues) = (IF strict THEN 1 ELSE 0)
                 /\ CountMsg(issues, "info", MsgFound(T, R, P)) = Summaries(issues)

(* C18. Context-parameter rule: every handler, def or async def, with a    *)
(* parameter named ctx or context gets the error exactly when no such      *)
(* parameter is annotated with the Context type and the warning exactly    *)
(* when it is not async; a handler without such a parameter gets neither.  *)
ContextTyped(n) ==
    \E j \in DOMAIN n.args.args :
        /\ n.args.args[j].arg \in {"ctx", "context"}
        /\ n.args.args[j].annotation \in {Some("Context"), Some("Optional[Context]")}

C18_ContextRule ==
    RulePassDone =>
        \A i \in DOMAIN HandlersOf(file.tree) :
            LET n == HandlersOf(file.tree)[i]
            IN  /\ CountMsg(issues, "error", MsgCtxHint(n.name)) =
                       (IF HasContextParam(n) /\ ~ContextTyped(n) THEN 1 ELSE 0)
                /\ CountMsg(issues, "warning", MsgCtxNotAsync(n.name)) =
                       (IF HasContextParam(n) /\ n.type = "FunctionDef" THEN 1 ELSE 0)

(* C19. Type-hint completeness: a function with a tool, resource or prompt *)
(* decorator gets one warning per parameter other than self, of whatever   *)
(* kind, that has no annotation, and one more if it has no return          *)
(* annotation; any other function gets no type-hint warning.               *)
Parameters(n) == n.args.args \o n.args.kwonlyargs

C19_TypeHints ==
    RulePassDone =>
        \A i \in DOMAIN AllFunctions(file.tree) :
            LET n == AllFunctions(file.tree)[i]
            IN  /\ \A j \in DOMAIN Parameters(n) :
                       CountMsg(issues, "warning", MsgParamHint(Parameters(n)[j].arg, n.name)) =
                           (IF /\ IsHandler(n)
                               /\ Parameters(n)[j].arg # "self"
                               /\ Parameters(n)[j].annotation = None
                            THEN 1 ELSE 0)
                /\ CountMsg(issues, "warning", MsgReturnHint(n.name)) =
                       (IF IsHandler(n) /\ n.returns = None THEN 1 ELSE 0)

(* C20. Import check: the missing-import error when the tree has no        *)
(* "from fastmcp import ..." statement at all; a warning when it has some  *)
(* but FastMCP is among the names of none of them; neither the error nor   *)
(* the warning for a file that imports FastMCP from fastmcp.               *)
FromImports(t) ==
    LET imp(n) == n.type = "ImportFrom" /\ n.module = "fastmcp" IN SelectSeq(walk(t), imp)
ImportsSymbol(t) ==
    \E i \in DOMAIN FromImports(t) : InList("FastMCP", FromImports(t)[i].names)

C20_ImportCheck ==
    RulePassDone =>
        /\ FromImports(file.tree) = <<>> => CountMsg(issues, "error", MsgMissingImport) = 1
        /\ (FromImports(file.tree) # <<>> /\ ~ImportsSymbol(file.tree)) =>
               CountMsg(issues, "warning", MsgNoImportClass) >= 1
        /\ ImportsSymbol(file.tree) =>
               /\ CountMsg(issues, "error", MsgMissingImport) = 0
               /\ CountMsg(issues, "warning", MsgNoImportClass) = 0

(* C21. Server-initialization check: the file-level error exactly when no  *)
(* assignment statement, at whatever depth, has a FastMCP(...) call as its *)
(* value; at each line as many "without server name" errors as there are   *)
(* assignments of a FastMCP() call without positional arguments there.     *)
ConstructorAssignments(t) ==
    LET asg(n) == /\ n.type \in {"Assign", "AnnAssign"}
                  /\ n.value.type = "Call"
                  /\ n.value.func = Name("FastMCP")
    IN  SelectSeq(walk(t), asg)
CountAt(iss, sev, msg, line) ==
    Cardinality({i \in DOMAIN iss :
        iss[i].severity = sev /\ iss[i].message = msg /\ iss[i].line = Some(line)})
Unnamed(t, line) ==
    Cardinality({i \in DOMAIN ConstructorAssignments(t) :
        /\ ConstructorAssignments(t)[i].lineno = line
        /\ ConstructorAssignments(t)[i].value.args = <<>>})
LinesOf(t) == {walk(t)[i].lineno : i \in {j \in DOMAIN walk(t) : "lineno" \in DOMAIN walk(t)[j]}}

C21_ServerInit ==
    RulePassDone =>
        /\ CountMsg(issues, "error", MsgNoServerInit) =
               (IF ConstructorAssignments(file.tree) = <<>> THEN 1 ELSE 0)
        /\ \A l \in LinesOf(file.tree) :
               CountAt(issues, "error", MsgNoServerName, l) = Unnamed(file.tree, l)
        /\ CountMsg(issues, "error", MsgNoServerName) =
               Cardinality({i \in DOMAIN ConstructorAssignments(file.tree) :
                               ConstructorAssignments(file.tree)[i].value.args = <<>>})

(* C22. Async/await consistency over the whole subtree: a handler declared *)
(* with def gets the error exactly when an await occurs anywhere beneath   *)
(* it, nested function definitions included; an async def handler, or a    *)
(* handler without any await beneath it, gets none.                        *)
C22_WholeSubtree ==
    RulePassDone =>
        \A i \in DOMAIN HandlersOf(file.tree) :
            LET n == HandlersOf(file.tree)[i]
            IN  CountMsg(issues, "error", MsgAwaitNotAsync(n.name)) =
                    (IF n.type = "FunctionDef" /\ ContainsAwait(n) THEN 1 ELSE 0)

AwaitOnlyInNestedAsync(n) ==
    /\ n.type = "FunctionDef"
    /\ IsHandler(n)
    /\ \A i \in DOMAIN n.body : n.body[i].type # "Expr" \/ n.body[i].value.type # "Await"
    /\ \E i \in DOMAIN n.body : n.body[i].type = "AsyncFunctionDef" /\ ContainsAwait(n.body[i])

C22_Witness ==
    /\ RulePassDone
    /\ AllFunctions(file.tree) # <<>>
    /\ AwaitOnlyInNestedAsync(AllFunctions(file.tree)[1])
    /\ CountMsg(issues, "error", MsgAwaitNotAsync(AllFunctions(file.tree)[1].name)) = 1

(* C23. Entry-point guard check: in strict mode the missing-guard info is  *)
(* emitted exactly when no top-level if statement compares __name__ with   *)
(* the string "__main__"; in non-strict mode it is never emitted.          *)
C23_GuardCheck ==
    RulePassDone =>
        CountMsg(issues, "info", MsgNoMain) =
            (IF strict /\ ~HasGuard(file.tree) THEN 1 ELSE 0)

(* C24. Source order within a rule: of two findings of the same rule that  *)
(* are attached to function definitions on different lines, the one for    *)
(* the function that starts earlier in the source text comes first in the  *)
(* finding list, a function nested in an earlier function included.        *)
C24_SourceOrder ==
    RulePassDone =>
        \A i, j \in DOMAIN issues :
            ( /\ i < j
              /\ SpecRuleOf(issues[i].message) \in 4..9
              /\ SpecRuleOf(issues[i].message) = SpecRuleOf(issues[j].message)
              /\ issues[i].line # issues[j].line )
            => issues[i].line[1] < issues[j].line[1]

(* C25. Info non-materialization: in a run constructed without strict the  *)
(* finding list holds no info finding in any state; in a strict run that   *)
(* has finished its rules the list holds one info finding per add_info     *)
(* call made: the inventory summary when a handler was counted, and the    *)
(* missing-guard note when no conditional on __name__ was seen.            *)
CountedHandlers(t) ==
    LET c(n) == n.type = "FunctionDef" /\ IsHandler(n) IN SelectSeq(walk(t), c)
NameConditionals(t) ==
    LET c(n) == n.type = "If" /\ n.test.type = "Compare" /\ n.test.left = Name("__name__")
    IN  SelectSeq(walk(t), c)
InfoCalls(t) ==
    (IF CountedHandlers(t) # <<>> THEN 1 ELSE 0) + (IF NameConditionals(t) = <<>> THEN 1 ELSE 0)

C25_InfoMaterialization ==
    /\ ~strict => Count(issues, "info") = 0
    /\ (strict /\ RulePassDone) => Count(issues, "info") = InfoCalls(file.tree)

C25_Witness ==
    /\ RulePassDone
    /\ ~strict
    /\ InfoCalls(file.tree) = 2
    /\ Len(issues) > 0
    /\ Count(issues, "info") = 0

(* C26. Prompt-return-type check: every prompt handler, def or async def,  *)
(* gets exactly one "unusual return type" warning when it declares a       *)
(* return annotation other than str and list[PromptMessage], and none      *)
(* when the annotation is one of the two or is absent.                     *)
PromptFindings(iss, name) ==
    Cardinality({i \in DOMAIN iss :
        /\ iss[i].severity = "warning"
        /\ iss[i].message[1] = "Prompt '"
        /\ iss[i].message[2] = name})

C26_PromptReturn ==
    RulePassDone =>
        \A i \in DOMAIN AllFunctions(file.tree) :
            LET n == AllFunctions(file.tree)[i]
            IN  DecoratedWith(n, "prompt") =>
                    IF n.returns # None /\ ~UsualPromptReturn(n)
                    THEN /\ PromptFindings(issues, n.name) = 1
                         /\ CountMsg(issues, "warning", MsgPromptReturn(n.name, n.returns[1])) = 1
                    ELSE PromptFindings(issues, n.name) = 0

(* C27. Docstring check: every tool handler, def or async def, gets        *)
(* exactly one "missing docstring" warning naming it when it has no        *)
(* docstring and none when it has one; a function that is not a tool       *)
(* handler gets none.                                                      *)
C27_Docstring ==
    RulePassDone =>
        \A i \in DOMAIN AllFunctions(file.tree) :
            LET n == AllFunctions(file.tree)[i]
            IN  CountMsg(issues, "warning", MsgToolDoc(n.name)) =
                    (IF DecoratedWith(n, "tool") /\ ~HasDocstring(n) THEN 1 ELSE 0)

(* C28. File-handle scoping: the file object is open only while the file   *)
(* is being read; it is closed before parsing and before any rule runs,    *)
(* and also when reading fails; a failed open or read ends the run with    *)
(* that one error finding, nothing parsed and no rule run.                 *)
ReadFails == file.status \in {"unopenable", "unreadable"}

C28_HandleScoping ==
    /\ handle = "open" => pc = "read"
    /\ (pc = "parse" \/ tree # None \/ calls # <<>>) => handle = "closed"
    /\ ReadFails => pc \in {"validate", "exists", "open", "read", "exit", "done"}
    /\ (ReadFails /\ pc \in {"exit", "done"}) =>
           /\ issues = add_error(None, MsgReadFailed, None)
           /\ success = Some(FALSE)
           /\ content = None /\ tree = None /\ calls = <<>>

C28_Witness ==
    /\ file.status = "unreadable"
    /\ pc = "exit"
    /\ handle = "closed"
    /\ Len(issues) = 1

(* C29. Async def functions are invisible to the handler rules: no         *)
(* docstring, resource-URI, prompt-return, type-hint, await or context     *)
(* finding ever names a function declared with async def, the inventory    *)
(* counts plain def handlers only, and a file without a plain def handler  *)
(* gets the "no handlers" warning, whatever async def handlers it has.     *)
Naming(iss, name) ==
    {i \in DOMAIN iss :
        /\ SpecRuleOf(iss[i].message) \in 4..9
        /\ \/ iss[i].message[1] # "Parameter '" /\ iss[i].message[2] = name
           \/ iss[i].message[1] = "Parameter '" /\ iss[i].message[4] = name}
PlainCount(t, attr) ==
    Cardinality({i \in DOMAIN CountedHandlers(t) : DecoratedWith(CountedHandlers(t)[i], attr)})

IsPrefix(a, b) == Len(a) <= Len(b) /\ SubSeq(b, 1, Len(a)) = a
NewRun == pc = "done" /\ pc' = "validate"

C30_AppendOnly ==
    /\ [][NewRun \/ IsPrefix(issues, issues')]_vars
    /\ [](/\ CountMsg(issues, "error", MsgMissingImport) <= 1
          /\ CountMsg(issues, "error", MsgNoServerInit) <= 1
          /\ ~(/\ CountMsg(issues, "error", MsgMissingImport) > 0
               /\ CountMsg(issues, "warning", MsgNoImportClass) > 0))

C30_Witness ==
    /\ RulePassDone
    /\ CountMsg(issues, "error", MsgMissingImport) = 1
    /\ CountMsg(issues, "error", MsgNoServerInit) = 1
    /\ Len(issues) >= 4

====
